---- MODULE Spec2Model ----
(***************************************************************************)
(* The penguin-species inference service: the start-up model load of       *)
(* main.py (remote object store first, local file second), the request     *)
(* validation of PenguinFeatures and the /predict handler; the application *)
(* test_api.py builds for its tests (which keeps serving when the model    *)
(* file cannot be read); and the feature columns train.py fits on.         *)
(*                                                                         *)
(* Measurements are whole numbers: a JSON number n stands for the float n. *)
(***************************************************************************)
EXTENDS Integers, Sequences, FiniteSets, TLC

\* Largest number a request field carries (as a JSON number).
MaxNum == 1

\* The request fields of PenguinFeatures.
Fields == {"bill_length_mm", "bill_depth_mm", "flipper_length_mm", "body_mass_g"}

\* The feature columns the training script fits the classifier on, in order.
TrainColumns == <<"bill_length_mm", "bill_depth_mm", "flipper_length_mm", "body_mass_g">>

\* The order in which the handler of the swapped-column variant would
\* assemble the row.
PredictOrderSwapped == <<"bill_depth_mm", "bill_length_mm", "flipper_length_mm", "body_mass_g">>

\* The order in which the /predict handler assembles the row it passes to
\* the classifier.
PredictOrder == <<"bill_length_mm", "bill_depth_mm", "flipper_length_mm", "body_mass_g">>

----------------------------------------------------------------------------
\* JSON values of a request field.

Absent == [kind |-> "absent", num |-> 0, text |-> <<>>]
Null == [kind |-> "null", num |-> 0, text |-> <<>>]
Num(n) == [kind |-> "num", num |-> n, text |-> <<>>]
Str(s) == [kind |-> "str", num |-> 0, text |-> s]

Nums == (-1)..MaxNum
Texts == {<<"1">>, <<"-", "1">>, <<"a">>}
Values == {Absent, Null} \cup {Num(n) : n \in Nums} \cup {Str(s) : s \in Texts}
Payloads == [Fields -> Values]

\* The payloads of the concurrent clients: complete numeric measurements,
\* and one with a negative field.
ConcNums == {0, 1}
ConcPayloads == [Fields -> {Num(n) : n \in ConcNums}] \cup {[f \in Fields |-> Num(-1)]}

----------------------------------------------------------------------------
\* Coercion of a field value to float, as the validation framework does it
\* for a field annotated float: a number is taken as it is, a string is
\* parsed as a decimal numeral, anything else is a type error.

Digits == {"0", "1", "2", "3", "4", "5", "6", "7", "8", "9"}

DigitVal(c) ==
    CASE c = "0" -> 0 [] c = "1" -> 1 [] c = "2" -> 2 [] c = "3" -> 3
      [] c = "4" -> 4 [] c = "5" -> 5 [] c = "6" -> 6 [] c = "7" -> 7
      [] c = "8" -> 8 [] c = "9" -> 9 [] OTHER -> 0

AllDigits(s) == Len(s) > 0 /\ \A i \in 1..Len(s) : s[i] \in Digits

IsNumeral(s) ==
    \/ AllDigits(s)
    \/ Len(s) > 1 /\ s[1] \in {"-", "+"} /\ AllDigits(Tail(s))

RECURSIVE DigitsVal(_)
DigitsVal(s) ==
    IF s = <<>> THEN 0
    ELSE 10 * DigitsVal(SubSeq(s, 1, Len(s) - 1)) + DigitVal(s[Len(s)])

ParseFloat(s) ==
    IF s[1] = "-" THEN 0 - DigitsVal(Tail(s))
    ELSE IF s[1] = "+" THEN DigitsVal(Tail(s))
    ELSE DigitsVal(s)

\* The variant that parses every string, a non-numeral as 0.
CoercibleAnyString(v) == v.kind \in {"num", "str"}

Coercible(v) == v.kind = "num" \/ (v.kind = "str" /\ IsNumeral(v.text))

ToFloat(v) ==
    IF v.kind = "num" THEN v.num
    ELSE IF v.kind = "str" /\ IsNumeral(v.text) THEN ParseFloat(v.text)
    ELSE 0

----------------------------------------------------------------------------
\* PenguinFeatures: four required float fields, each with ge=0, and the
\* validator check_not_negative on every field.

\* The variant whose fields default to 0 when the payload omits them.
RequiredNever(v) == FALSE

\* Field(...): the field is required.
Required(v) == v.kind = "absent"

\* The variant with gt=0 in place of ge=0.
GeZeroStrict(x) == x > 0

\* Field(..., ge=0).
GeZero(x) == x >= 0

\* main.py: runs after the coercion, on the float. TRUE when it raises.
check_not_negative(x) == x < 0

\* test_api.py: runs before the coercion (pre=True), on the raw value.
check_not_negative_pre(v) == v.kind = "num" /\ v.num < 0

\* The variant that declares the fields plain float: no sign check at all.
FieldErrorUnsigned(a, v) ==
    IF v.kind = "absent" THEN "missing"
    ELSE IF ~(v.kind = "num" \/ (v.kind = "str" /\ IsNumeral(v.text))) THEN "type_error"
    ELSE "ok"

\* The error the application `a` reports for one field, "ok" if none. A field
\* that is not required and absent takes its default without validation.
FieldError(a, v) ==
    IF Required(v) THEN "missing"
    ELSE IF v.kind = "absent" THEN "ok"
    ELSE IF a = "test_api" /\ check_not_negative_pre(v) THEN "value_error"
    ELSE IF ~Coercible(v) THEN "type_error"
    ELSE IF a = "main" /\ check_not_negative(ToFloat(v)) THEN "value_error"
    ELSE IF ~GeZero(ToFloat(v)) THEN "ge"
    ELSE "ok"

\* The variant whose handler takes the raw body: nothing is validated.
ValidationErrorsNone(a, p) == {}

ValidationErrors(a, p) == {f \in Fields : FieldError(a, p[f]) # "ok"}

\* The validated model object: every field as a float.
Parsed(p) == [f \in Fields |-> ToFloat(p[f])]

----------------------------------------------------------------------------
\* The classifier. A fitted classifier is a decision rule over the row it is
\* given: one split on the column `feature` at `threshold`, a class on each
\* side. The artifact train.py saves holds such a rule.

Tree(f, t, lo, hi) == [feature |-> f, threshold |-> t, below |-> lo, atOrAbove |-> hi]
NoTree == Tree(1, 0, 0, 0)

\* The artifacts the stores may hold. The classes are the label-encoded
\* species: 0, 1, 2.
Artifacts == {Tree(1, 1, 0, 1), Tree(2, 1, 2, 0)}

\* model.predict(data)[0] of a fitted classifier.
Predict(tree, data) ==
    IF data[tree.feature] < tree.threshold THEN tree.below ELSE tree.atOrAbove

\* What a path of the file system holds.
NoFile == [kind |-> "absent", tree |-> NoTree]
CorruptFile == [kind |-> "corrupt", tree |-> NoTree]
ArtifactFile(t) == [kind |-> "artifact", tree |-> t]
FileContents == {NoFile, CorruptFile} \cup {ArtifactFile(t) : t \in Artifacts}

\* The module-level name `model`: not yet bound, a new classifier whose load
\* failed, None (test_api.py, after a failed load), or a classifier with a
\* loaded rule.
Unbound == [state |-> "unbound", tree |-> NoTree]
Unfitted == [state |-> "unfitted", tree |-> NoTree]
None == [state |-> "None", tree |-> NoTree]
Loaded(t) == [state |-> "loaded", tree |-> t]

----------------------------------------------------------------------------
VARIABLES
    app,          \* which application module is served: "main" or "test_api"
    pc,           \* position of the module-level code
    env,          \* GCS_BUCKET_NAME, GCS_BLOB_NAME: set to a non-empty string?
    files,        \* contents of the temporary file and of penguin_model.json
    gcsError,     \* the exception download_model_from_gcs raised, "none" if none
    MODEL_PATH,   \* "None", "tmp" (the downloaded file) or "penguin_model.json"
    model,        \* the module-level classifier
    loads,        \* number of successful load_model calls
    req           \* per worker thread: the request it is handling

vars == <<app, pc, env, files, gcsError, MODEL_PATH, model, loads, req>>

EnvNames == {"GCS_BUCKET_NAME", "GCS_BLOB_NAME"}
LocalPath == "penguin_model.json"
Paths == {"tmp", LocalPath}

AllWorkers == {"w1", "w2"}
OneWorker == {"w1"}

NoPayload == [f \in Fields |-> Absent]
NoFeatures == [f \in Fields |-> 0]

Idle ==
    [pc |-> "idle", payload |-> NoPayload, features |-> NoFeatures, data |-> <<>>,
     status |-> 0, prediction |-> -1, invoked |-> FALSE]

InitCommon ==
    /\ files \in {fs \in [Paths -> FileContents] : fs["tmp"] = NoFile}
    /\ gcsError = "none"
    /\ MODEL_PATH = "None"
    /\ model = Unbound
    /\ loads = 0
    /\ req = [w \in AllWorkers |-> Idle]

InitMain ==
    /\ app = "main"
    /\ pc = "download"
    /\ env \in [EnvNames -> BOOLEAN]
    /\ InitCommon

InitTestApi ==
    /\ app = "test_api"
    /\ pc = "load"
    /\ env = [n \in EnvNames |-> FALSE]
    /\ InitCommon

----------------------------------------------------------------------------
\* Start-up: the module-level code of main.py, and of test_api.py.

\* The variant that raises only when both variables are unset.
ConfigMissingBoth(e) == ~e["GCS_BUCKET_NAME"] /\ ~e["GCS_BLOB_NAME"]

\* if not bucket_name or not blob_name
ConfigMissing(e) == ~e["GCS_BUCKET_NAME"] \/ ~e["GCS_BLOB_NAME"]

\* download_model_from_gcs raises ValueError: a variable is unset or empty.
GcsConfigMissing ==
    /\ pc = "download"
    /\ ConfigMissing(env)
    /\ gcsError' = "ValueError"
    /\ pc' = "fallback"
    /\ UNCHANGED <<app, env, files, MODEL_PATH, model, loads, req>>

\* The storage client raises: the store is unreachable, the object missing.
GcsDownloadFails ==
    /\ pc = "download"
    /\ ~ConfigMissing(env)
    /\ \E e \in {"NetworkError", "NotFound"} : gcsError' = e
    /\ pc' = "fallback"
    /\ UNCHANGED <<app, env, files, MODEL_PATH, model, loads, req>>

\* The blob is downloaded into a temporary file, whose name is returned.
GcsDownloadOk ==
    /\ pc = "download"
    /\ ~ConfigMissing(env)
    /\ \E c \in FileContents \ {NoFile} : files' = [files EXCEPT !["tmp"] = c]
    /\ MODEL_PATH' = "tmp"
    /\ pc' = "load"
    /\ UNCHANGED <<app, env, gcsError, model, loads, req>>

\* except Exception: penguin_model.json exists.
FallbackLocal ==
    /\ pc = "fallback"
    /\ files[LocalPath].kind # "absent"
    /\ MODEL_PATH' = LocalPath
    /\ pc' = "load"
    /\ UNCHANGED <<app, env, files, gcsError, model, loads, req>>

\* except Exception: penguin_model.json does not exist, RuntimeError.
FallbackAbort ==
    /\ pc = "fallback"
    /\ files[LocalPath].kind = "absent"
    /\ pc' = "aborted"
    /\ UNCHANGED <<app, env, files, gcsError, MODEL_PATH, model, loads, req>>

\* The path load_model is given.
LoadPath == IF app = "main" THEN MODEL_PATH ELSE LocalPath

\* The variant that guards the load of either application.
LoadErrorCaughtAlways(a) == TRUE

\* Is an error of load_model caught? Only test_api.py wraps the call.
LoadErrorCaught(a) == a = "test_api"

\* model = xgb.XGBClassifier(); model.load_model(path) reads an artifact.
LoadModelOk ==
    /\ pc = "load"
    /\ files[LoadPath].kind = "artifact"
    /\ model' = Loaded(files[LoadPath].tree)
    /\ loads' = loads + 1
    /\ pc' = "serving"
    /\ UNCHANGED <<app, env, files, gcsError, MODEL_PATH, req>>

\* load_model raises: the file is missing or is no artifact. main.py lets the
\* error end the import; test_api.py sets model = None and goes on.
LoadModelFails ==
    /\ pc = "load"
    /\ files[LoadPath].kind # "artifact"
    /\ model' = IF LoadErrorCaught(app) THEN None ELSE Unfitted
    /\ pc' = IF LoadErrorCaught(app) THEN "serving" ELSE "aborted"
    /\ UNCHANGED <<app, env, files, gcsError, MODEL_PATH, loads, req>>

----------------------------------------------------------------------------
\* Requests: the framework validates the body against PenguinFeatures and
\* calls the handler only with a validated object.

\* A POST /predict arrives at worker w; the application has been imported.
Receive(w, payloads) ==
    /\ pc = "serving"
    /\ req[w].pc = "idle"
    /\ \E p \in payloads :
         req' = [req EXCEPT ![w] = [Idle EXCEPT !.pc = "received", !.payload = p]]
    /\ UNCHANGED <<app, pc, env, files, gcsError, MODEL_PATH, model, loads>>

ValidateOk(w) ==
    /\ req[w].pc = "received"
    /\ ValidationErrors(app, req[w].payload) = {}
    /\ req' = [req EXCEPT ![w].pc = "validated",
                           ![w].features = Parsed(req[w].payload)]
    /\ UNCHANGED <<app, pc, env, files, gcsError, MODEL_PATH, model, loads>>

ValidateReject(w) ==
    /\ req[w].pc = "received"
    /\ ValidationErrors(app, req[w].payload) # {}
    /\ req' = [req EXCEPT ![w].pc = "responded", ![w].status = 422]
    /\ UNCHANGED <<app, pc, env, files, gcsError, MODEL_PATH, model, loads>>

\* np.array([[...]]): the row of the validated fields.
Row(features) == [i \in 1..Len(PredictOrder) |-> features[PredictOrder[i]]]

\* The request of worker w after the handler body ran against classifier m:
\* the prediction, or the server error an exception in predict turns into.
Handled(w, m) ==
    IF m.state = "loaded"
    THEN [req[w] EXCEPT !.pc = "responded", !.data = Row(req[w].features),
                        !.invoked = TRUE, !.status = 200,
                        !.prediction = Predict(m.tree, Row(req[w].features))]
    ELSE [req[w] EXCEPT !.pc = "responded", !.data = Row(req[w].features),
                        !.invoked = TRUE, !.status = 500]

\* The variant whose handler loads penguin_model.json anew on each call.
predict_reloading(w) ==
    /\ app = "main"
    /\ req[w].pc = "validated"
    /\ model' = IF files[LocalPath].kind = "artifact"
                THEN Loaded(files[LocalPath].tree) ELSE model
    /\ loads' = IF files[LocalPath].kind = "artifact" THEN loads + 1 ELSE loads
    /\ req' = [req EXCEPT ![w] = Handled(w, model')]
    /\ UNCHANGED <<app, pc, env, files, gcsError, MODEL_PATH>>

\* main.py: the handler of POST /predict.
predict(w) ==
    /\ app = "main"
    /\ req[w].pc = "validated"
    /\ req' = [req EXCEPT ![w] = Handled(w, model)]
    /\ UNCHANGED <<app, pc, env, files, gcsError, MODEL_PATH, model, loads>>

\* The variant of the test application's handler without the model check.
test_predict_unguarded(w) ==
    /\ app = "test_api"
    /\ req[w].pc = "validated"
    /\ req' = [req EXCEPT ![w] = Handled(w, model)]
    /\ UNCHANGED <<app, pc, env, files, gcsError, MODEL_PATH, model, loads>>

\* test_api.py: the handler of POST /predict, which first checks the model.
test_predict(w) ==
    /\ app = "test_api"
    /\ req[w].pc = "validated"
    /\ req' = IF model = None
              THEN [req EXCEPT ![w].pc = "responded", ![w].status = 500]
              ELSE [req EXCEPT ![w] = Handled(w, model)]
    /\ UNCHANGED <<app, pc, env, files, gcsError, MODEL_PATH, model, loads>>

\* The response is sent; the request's objects are discarded.
SendResponse(w) ==
    /\ req[w].pc = "responded"
    /\ req' = [req EXCEPT ![w] = Idle]
    /\ UNCHANGED <<app, pc, env, files, gcsError, MODEL_PATH, model, loads>>

----------------------------------------------------------------------------
\* main.py with one request at a time and every payload.
Init == InitMain

Next ==
    \/ GcsConfigMissing \/ GcsDownloadFails \/ GcsDownloadOk
    \/ FallbackLocal \/ FallbackAbort
    \/ LoadModelOk \/ LoadModelFails
    \/ \E w \in OneWorker :
         \/ Receive(w, Payloads)
         \/ ValidateOk(w) \/ ValidateReject(w)
         \/ predict(w)
         \/ SendResponse(w)

Spec == Init /\ [][Next]_vars

\* main.py with two worker threads handling requests concurrently.
NextConc ==
    \/ GcsConfigMissing \/ GcsDownloadFails \/ GcsDownloadOk
    \/ FallbackLocal \/ FallbackAbort
    \/ LoadModelOk \/ LoadModelFails
    \/ \E w \in AllWorkers :
         \/ Receive(w, ConcPayloads)
         \/ ValidateOk(w) \/ ValidateReject(w)
         \/ predict(w)
         \/ SendResponse(w)

SpecConc == InitMain /\ [][NextConc]_vars

\* Either application: main.py, or the one test_api.py defines.
InitApps == InitMain \/ InitTestApi

NextApps ==
    \/ GcsConfigMissing \/ GcsDownloadFails \/ GcsDownloadOk
    \/ FallbackLocal \/ FallbackAbort
    \/ LoadModelOk \/ LoadModelFails
    \/ \E w \in OneWorker :
         \/ Receive(w, Payloads)
         \/ ValidateOk(w) \/ ValidateReject(w)
         \/ predict(w) \/ test_predict(w)
         \/ SendResponse(w)

SpecApps == InitApps /\ [][NextApps]_vars

----------------------------------------------------------------------------
\* Properties.

Responded(w) == req[w].pc = "responded"

\* Descriptions of a payload, from the JSON values alone.
IsNonNegativeNumber(v) == v.kind = "num" /\ v.num >= 0
IsNegativeNumber(v) == v.kind = "num" /\ v.num < 0
IsNotANumber(v) == v.kind \in {"str", "null"}
HasNonNumeralChar(s) == s = <<>> \/ \E i \in 1..Len(s) : s[i] \notin Digits \cup {"-", "+", "."}
IsUnreadableAsNumber(v) == v.kind = "null" \/ (v.kind = "str" /\ HasNonNumeralChar(v.text))
IsNonNegativeNumeral(v) == v.kind = "str" /\ AllDigits(v.text)
AllValidNumbers(p) == \A f \in Fields : IsNonNegativeNumber(p[f])
OthersValid(p, f) == \A g \in Fields \ {f} : IsNonNegativeNumber(p[g])

\* C1: every payload whose four fields are present, numeric and >= 0 (0
\* included) is answered 200 with a prediction in {0, 1, 2}.
C1_ValidAccepted ==
    \A w \in AllWorkers :
        Responded(w) /\ AllValidNumbers(req[w].payload)
            => req[w].status = 200 /\ req[w].prediction \in {0, 1, 2}

C1_Witness ==
    \E w \in AllWorkers :
        /\ Responded(w) /\ AllValidNumbers(req[w].payload)
        /\ req[w].payload["body_mass_g"] = Num(0)
        /\ req[w].payload["bill_length_mm"] = Num(1)
        /\ req[w].status = 200

\* C2: when neither the object store nor penguin_model.json yields a
\* readable artifact the start-up aborts and no request is ever accepted;
\* whenever requests are accepted or in service, a model has been loaded.
NeitherReadable ==
    files["tmp"].kind # "artifact" /\ files[LocalPath].kind # "artifact"
StartupOver == pc \in {"serving", "aborted"}

C2_NoServingWithoutModel ==
    /\ StartupOver /\ NeitherReadable
         => pc = "aborted" /\ \A w \in AllWorkers : req[w].pc = "idle"
    /\ (pc = "serving" \/ \E w \in AllWorkers : req[w].pc # "idle")
         => model.state = "loaded" /\ loads > 0

C2_Witness ==
    /\ pc = "aborted"
    /\ gcsError # "none"
    /\ files[LocalPath].kind = "absent"

\* C3: the object store is tried first; a missing variable, a network error
\* and a missing object each lead to penguin_model.json; with the local
\* artifact there the remote failure does not abort the start-up; and the
\* local file is used only after the remote attempt has failed.
RemoteFailures == {"ValueError", "NetworkError", "NotFound"}

C3_RemoteFirstLocalFallback ==
    /\ MODEL_PATH = LocalPath => gcsError \in RemoteFailures
    /\ pc # "download" /\ gcsError = "none" => MODEL_PATH = "tmp"
    /\ pc # "download" /\ (~env["GCS_BUCKET_NAME"] \/ ~env["GCS_BLOB_NAME"])
         => gcsError = "ValueError"
    /\ gcsError \in RemoteFailures /\ pc \in {"load", "serving"}
         => MODEL_PATH = LocalPath
    /\ gcsError \in RemoteFailures /\ files[LocalPath].kind = "artifact"
         => pc # "aborted"
    /\ gcsError \in RemoteFailures /\ files[LocalPath].kind = "artifact" /\ pc = "serving"
         => model = Loaded(files[LocalPath].tree)

C3_Witness ==
    /\ pc = "serving"
    /\ gcsError = "ValueError"
    /\ env["GCS_BUCKET_NAME"] /\ ~env["GCS_BLOB_NAME"]
    /\ MODEL_PATH = LocalPath
    /\ model = Loaded(files[LocalPath].tree)

\* C4: a payload with a negative field is answered 422, whatever the other
\* fields are.
C4_NegativeRejected ==
    \A w \in AllWorkers :
        Responded(w) /\ (\E f \in Fields : IsNegativeNumber(req[w].payload[f]))
            => req[w].status = 422

C4_Witness ==
    \E w \in AllWorkers :
        /\ Responded(w)
        /\ IsNegativeNumber(req[w].payload["body_mass_g"])
        /\ OthersValid(req[w].payload, "body_mass_g")
        /\ req[w].status = 422

\* C5 as stated: a payload with a field that is not a number (a string,
\* null) is answered 422 and the value is never coerced to a float.
C5_NotANumberRejected ==
    \A w \in AllWorkers :
        Responded(w) /\ (\E f \in Fields : IsNotANumber(req[w].payload[f]))
            => req[w].status = 422

\* C5, amended: a payload with a field that cannot be read as a number
\* (null, or a string with a character no numeral has) is answered 422; a
\* string that is a non-negative numeral is coerced to the float it denotes
\* and accepted like that number.
C5_UnreadableRejected ==
    \A w \in AllWorkers :
        /\ Responded(w) /\ (\E f \in Fields : IsUnreadableAsNumber(req[w].payload[f]))
             => req[w].status = 422 /\ ~req[w].invoked
        /\ Responded(w)
             /\ (\A f \in Fields : IsNonNegativeNumber(req[w].payload[f])
                                      \/ IsNonNegativeNumeral(req[w].payload[f]))
             => /\ req[w].status = 200
                /\ \A f \in Fields : IsNonNegativeNumeral(req[w].payload[f])
                      => req[w].features[f] = DigitsVal(req[w].payload[f].text)

C5_Witness ==
    \E w \in AllWorkers :
        /\ Responded(w)
        /\ req[w].payload["bill_length_mm"] = Str(<<"a">>)
        /\ OthersValid(req[w].payload, "bill_length_mm")
        /\ req[w].status = 422

\* C6: a payload that omits a required field is answered 422, whatever the
\* fields that are present hold.
C6_MissingRejected ==
    \A w \in AllWorkers :
        Responded(w) /\ (\E f \in Fields : req[w].payload[f].kind = "absent")
            => req[w].status = 422

C6_Witness ==
    \E w \in AllWorkers :
        /\ Responded(w)
        /\ req[w].payload["body_mass_g"].kind = "absent"
        /\ OthersValid(req[w].payload, "body_mass_g")
        /\ req[w].status = 422

\* C7: a request whose payload fails validation (a missing, unreadable or
\* negative field) never reaches the handler: predict is not invoked for it
\* and its answer is 422, never 500, also when the model is absent.
FailsValidation(p) ==
    \E f \in Fields :
        \/ p[f].kind = "absent"
        \/ IsUnreadableAsNumber(p[f])
        \/ IsNegativeNumber(p[f])

C7_ValidationBeforeInference ==
    \A w \in AllWorkers :
        req[w].pc # "idle" /\ FailsValidation(req[w].payload)
            => /\ req[w].pc # "validated"
               /\ ~req[w].invoked /\ req[w].data = <<>>
               /\ req[w].status \in {0, 422}
               /\ Responded(w) => req[w].status = 422

C7_Witness ==
    \E w \in AllWorkers :
        /\ app = "test_api" /\ model = None
        /\ Responded(w) /\ FailsValidation(req[w].payload)
        /\ req[w].status = 422

\* C8: while the service runs without a loaded model, a request with a valid
\* FeatureVector is answered 500 and predict is not attempted for it.
C8_NoModelServerError ==
    \A w \in AllWorkers :
        /\ pc = "serving" /\ model.state # "loaded"
        /\ Responded(w) /\ AllValidNumbers(req[w].payload)
        => req[w].status = 500 /\ ~req[w].invoked /\ req[w].data = <<>>

C8_Witness ==
    \E w \in AllWorkers :
        /\ pc = "serving" /\ model.state # "loaded"
        /\ Responded(w) /\ AllValidNumbers(req[w].payload)
        /\ req[w].status = 500

\* C9: the model is loaded exactly once, at start-up, and no request
\* changes, replaces or reloads it, however requests interleave; two
\* requests with the same FeatureVector get the same prediction.
C9_SameAnswer ==
    \A v, w \in AllWorkers :
        /\ Responded(v) /\ Responded(w)
        /\ req[v].status = 200 /\ req[w].status = 200
        /\ req[v].features = req[w].features
        => req[v].prediction = req[w].prediction

C9_ModelImmutable ==
    /\ [](pc = "serving" => loads = 1)
    /\ [](C9_SameAnswer)
    /\ [][pc = "serving" => model' = model /\ loads' = loads]_vars

C9_Witness ==
    /\ Responded("w1") /\ Responded("w2")
    /\ req["w1"].status = 200 /\ req["w2"].status = 200
    /\ req["w1"].features = req["w2"].features
    /\ files["tmp"].kind = "artifact" /\ files[LocalPath].kind = "artifact"
    /\ files["tmp"] # files[LocalPath]

\* C10: the row passed to the model has four entries, in the order bill
\* length, bill depth, flipper length, body mass, each the validated field
\* of the request; the training script fits on the same columns in the
\* same order.
C10_RowMatchesTraining ==
    \A w \in AllWorkers :
        req[w].invoked
            => /\ Len(req[w].data) = 4
               /\ Len(TrainColumns) = 4
               /\ TrainColumns = <<"bill_length_mm", "bill_depth_mm",
                                   "flipper_length_mm", "body_mass_g">>
               /\ \A i \in 1..4 :
                     /\ req[w].data[i] = req[w].features[TrainColumns[i]]
                     /\ req[w].payload[TrainColumns[i]].kind = "num"
                          => req[w].data[i] = req[w].payload[TrainColumns[i]].num

C10_Witness ==
    \E w \in AllWorkers :
        /\ req[w].invoked /\ req[w].status = 200
        /\ req[w].data = <<1, 0, 1, 0>>

====
